---- MODULE Spec2Model ----
(***************************************************************************)
(* Model of the WordPress-to-Zola migration scripts:                       *)
(*   convert_legacy_code_blocks.py  (Content Classifier, Block Rewriter)   *)
(*   migrate_wordpress.py           (Document Converter, Redirect Map)     *)
(*   download_wordpress_images.py   (image download loop)                  *)
(*                                                                         *)
(* Text is modelled as a sequence of lexemes (tokens).  "sp" is one blank, *)
(* "nl" one newline, "nlrun" a run of BlankRun newlines; every other token *)
(* is a run of non-blank characters ("fence" is the three-backtick marker).*)
(* Regular expressions are transcribed                                     *)
(* lexeme by lexeme and matched by a small backtracking matcher.           *)
(***************************************************************************)
EXTENDS Integers, Sequences, FiniteSets, TLC

VARIABLES
    \* Content Classifier run on its own
    code, label, cpc,
    \* detect_language and convert_code_block run on a snippet in a context
    det_context, det_language, det_block,
    \* Block Rewriter: the file, the arguments and locals of the last
    \* process_file call, main's counters
    filepath, disk, dry_run, original, blocks, converted, issues, wrote, ret,
    prev_wrote, total_files, total_blocks, failed_files, runs,
    \* Document Converter: the post records of the export, main's loop position
    \* and list of results, the files under content/blog, redirects.json;
    \* writer and migrated_items record which post produced a file or a result
    posts, idx, files, writer, migrated_posts, migrated_items, redirects, mpc,
    \* Image download: the argument and locals of download_images, the files
    \* under static/, the requests sent, the lines printed, the return value
    image_urls, image_list, didx, successful, failed, total_bytes, static,
    requested, printed, dret, dpc,
    \* Gist inliner: the post file, the locals of process_post, the gists
    \* requested with what came of each, the number of writes of the post
    \* file, the return value
    post_disk, post_content, original_content, gist_ids, gidx, fetched,
    post_writes, gret, gpc

cvars == <<code, label, cpc, det_context, det_language, det_block>>

rvars == <<filepath, disk, dry_run, original, blocks, converted, issues, wrote, ret,
           prev_wrote, total_files, total_blocks, failed_files, runs>>

mvars == <<posts, idx, files, writer, migrated_posts, migrated_items, redirects, mpc>>

dvars == <<image_urls, image_list, didx, successful, failed, total_bytes, static,
           requested, printed, dret, dpc>>

gvars == <<post_disk, post_content, original_content, gist_ids, gidx, fetched,
           post_writes, gret, gpc>>

vars == <<cvars, rvars, mvars, dvars, gvars>>

None == "None"

----------------------------------------------------------------------------
(* Bounds *)

\* number of sample lines in the body of an enumerated snippet
MaxBody == 3
\* length of the newline run denoted by the token "nlrun"
BlankRun == 16
\* number of segments an enumerated document body is made of
MaxSegs == 3
\* number of times the converter is run on the same file
MaxRuns == 2
\* number of post records in the export
MaxPosts == 2
\* number of image references found in the posts
MaxImages == 3
\* number of sample lines in a snippet handed to detect_language
MaxDetectBody == 2
\* number of characters in a category or tag name
MaxLabel == 2
\* number of segments (gist links and lines of text) a post is made of
MaxGistSegs == 3

----------------------------------------------------------------------------
(* Values of the variables of a component that is not running *)

NoReturn == [success |-> FALSE, count |-> 0, issues |-> <<>>]

RewriterIdle ==
    /\ filepath = <<>> /\ disk = <<>> /\ dry_run = FALSE /\ original = <<>>
    /\ blocks = <<>> /\ converted = <<>> /\ issues = <<>> /\ wrote = FALSE
    /\ ret = NoReturn /\ prev_wrote = FALSE
    /\ total_files = 0 /\ total_blocks = 0 /\ failed_files = <<>> /\ runs = 0

NoContext == [filepath |-> <<>>, frontmatter |-> <<>>]

ClassifierIdle ==
    /\ code = <<>> /\ label = "unset" /\ cpc = "idle"
    /\ det_context = NoContext /\ det_language = "unset" /\ det_block = <<>>

MigrationIdle ==
    /\ posts = <<>> /\ idx = 1 /\ files = <<>> /\ writer = <<>>
    /\ migrated_posts = <<>> /\ migrated_items = <<>> /\ redirects = <<>>
    /\ mpc = "idle"

DownloadIdle ==
    /\ image_urls = {} /\ image_list = <<>> /\ didx = 1
    /\ successful = 0 /\ failed = 0 /\ total_bytes = 0 /\ static = <<>>
    /\ requested = <<>> /\ printed = <<>> /\ dret = <<>> /\ dpc = "idle"

GistIdle ==
    /\ post_disk = <<>> /\ post_content = <<>> /\ original_content = <<>>
    /\ gist_ids = <<>> /\ gidx = 1 /\ fetched = <<>> /\ post_writes = 0
    /\ gret = <<>> /\ gpc = "idle"

----------------------------------------------------------------------------
(* Generic helpers *)

\* F applied to the value of e (e is evaluated once)
With(e, F(_)) == CHOOSE out \in {F(v) : v \in {e}} : TRUE

Min(S0) == With(S0, LAMBDA S : CHOOSE x \in S : \A y \in S : x <= y)
Max(S0) == With(S0, LAMBDA S : CHOOSE x \in S : \A y \in S : y <= x)

\* the k-th smallest element of a set of numbers
Kth(S, k) == CHOOSE x \in S : Cardinality({y \in S : y < x}) = k - 1

RECURSIVE ConcatFrom(_, _)
ConcatFrom(ss, k) == IF k > Len(ss) THEN <<>> ELSE ss[k] \o ConcatFrom(ss, k + 1)

\* the concatenation of a sequence of sequences
Concat(ss0) == With(ss0, LAMBDA ss : ConcatFrom(ss, 1))

RECURSIVE SeqsUpTo(_, _)
SeqsUpTo(S, n) ==
    IF n = 0 THEN {<<>>}
    ELSE LET shorter == SeqsUpTo(S, n - 1)
         IN  shorter \cup {Append(s, x) : s \in {t \in shorter : Len(t) = n - 1}, x \in S}

Repeat(x, n) == [k \in 1..n |-> x]

Abs(x) == IF x < 0 THEN -x ELSE x

----------------------------------------------------------------------------
(* Python str primitives over lexeme sequences *)

IsSpace(t) == t \in {"sp", "nl", "nlrun"}

\* number of '\n' characters a token stands for
Newlines(t) == IF t = "nl" THEN 1 ELSE IF t = "nlrun" THEN BlankRun ELSE 0

\* s.lstrip(chars) and s.rstrip(chars)
lstrip_in(s0, chars) ==
    With(s0, LAMBDA s :
        With({k \in 1..Len(s) : s[k] \notin chars}, LAMBDA keep :
            IF keep = {} THEN <<>> ELSE SubSeq(s, Min(keep), Len(s))))

rstrip_in(s0, chars) ==
    With(s0, LAMBDA s :
        With({k \in 1..Len(s) : s[k] \notin chars}, LAMBDA keep :
            IF keep = {} THEN <<>> ELSE SubSeq(s, 1, Max(keep))))

Whitespace == {"sp", "nl", "nlrun"}

lstrip(s) == lstrip_in(s, Whitespace)
rstrip(s) == rstrip_in(s, Whitespace)
strip(s) == rstrip(lstrip(s))

\* s.strip('"[]')
QuoteChars == {"dq", "[", "]"}
strip_quotes(s) == rstrip_in(lstrip_in(s, QuoteChars), QuoteChars)

\* s.split('\n'), less the empty lines inside an "nlrun": the pieces of s
\* between its newline tokens (every use drops empty lines anyway)
split(s0) ==
    With(s0, LAMBDA s :
        With({k \in 1..Len(s) : Newlines(s[k]) > 0}, LAMBDA breaks :
            With(Cardinality(breaks), LAMBDA n :
                [i \in 1..(n + 1) |->
                    SubSeq(s, (IF i = 1 THEN 0 ELSE Kth(breaks, i - 1)) + 1,
                              (IF i = n + 1 THEN Len(s) + 1 ELSE Kth(breaks, i)) - 1)]
                \o <<>>)))

\* str.lower(): the lexemes written with capitals and their lower-case forms
Lower(t) ==
    CASE t = "[CODE]"  -> "[code]"
      [] t = "[/CODE]" -> "[/code]"
      [] t = "Rust"    -> "rust"
      [] t = "Python"  -> "python"
      [] t = "A"       -> "a"
      [] t = "Uncategorized" -> "uncategorized"
      [] OTHER         -> t

lower(s0) == With(s0, LAMBDA s : [k \in 1..Len(s) |-> Lower(s[k])] \o <<>>)

\* needle in s, for a needle of one lexeme
contains(s0, needle) == With(s0, LAMBDA s : \E k \in 1..Len(s) : s[k] = needle)

\* s.count(needle)
count(s0, needle) == With(s0, LAMBDA s : Cardinality({k \in 1..Len(s) : s[k] = needle}))

\* len(s.split('\n')): one more than the number of newline characters
num_lines(s) == 1 + count(s, "nl") + BlankRun * count(s, "nlrun")

\* last index of the whitespace run that starts right after position i
RunEnd(s0, i) ==
    With(s0, LAMBDA s :
        With({k \in (i + 1)..Len(s) : ~IsSpace(s[k])}, LAMBDA stops :
            IF stops = {} THEN Len(s) ELSE Min(stops) - 1))

----------------------------------------------------------------------------
(* Regular expressions over lexemes (re.search on one line) *)

\* tokens consisting of word characters only (what \w+ can match)
Word == {"w", "import", "from", "def", "class", "async", "with", "use", "std",
         "fn", "let", "impl", "pub", "struct", "enum", "brew", "http",
         "uvicorn", "depends_on", "file", "get", "post", "put", "delete"}

Sp == {"sp"}

One(S)  == [t |-> S, q |-> "1"]
Star(S) == [t |-> S, q |-> "*"]
Plus(S) == [t |-> S, q |-> "+"]

\* a pattern anchored with ^ and one that may start anywhere in the line
AtStart(els)  == [bol |-> TRUE, els |-> els]
Anywhere(els) == [bol |-> FALSE, els |-> els]

\* does els[i..] match a prefix of line[j..] ?
RECURSIVE MatchAt(_, _, _, _)
MatchAt(els, i, line, j) ==
    IF i > Len(els) THEN TRUE
    ELSE LET e == els[i]
             here == j <= Len(line) /\ (e.t = {} \/ line[j] \in e.t)
         IN  CASE e.q = "1" -> here /\ MatchAt(els, i + 1, line, j + 1)
               [] e.q = "*" -> MatchAt(els, i + 1, line, j)
                               \/ (here /\ MatchAt(els, i, line, j + 1))
               [] e.q = "+" -> here /\ (MatchAt(els, i, line, j + 1)
                                        \/ MatchAt(els, i + 1, line, j + 1))

\* the empty token set stands for "." (any character of the line)
Dot == {}

re_search(p0, line0) ==
    With(<<p0, line0>>, LAMBDA a :
        IF a[1].bol THEN MatchAt(a[1].els, 1, a[2], 1)
        ELSE \E j \in 1..(Len(a[2]) + 1) : MatchAt(a[1].els, 1, a[2], j))

----------------------------------------------------------------------------
(* Pattern Library *)

PYTHON_PATTERNS == <<
    AtStart(<<Star(Sp), One({"import"}), Plus(Sp)>>),
    AtStart(<<Star(Sp), One({"from"}), Plus(Sp), Plus(Dot), Plus(Sp), One({"import"})>>),
    AtStart(<<Star(Sp), One({"def"}), Plus(Sp), Plus(Word)>>),
    AtStart(<<Star(Sp), One({"class"}), Plus(Sp), Plus(Word)>>),
    AtStart(<<Star(Sp), One({"async"}), Plus(Sp), One({"def"})>>),
    AtStart(<<One({"#!/usr/bin/env python"})>>),
    Anywhere(<<One({"@app."}), One({"get", "post", "put", "delete"})>>),
    AtStart(<<Star(Sp), One({"async"}), Plus(Sp), One({"with"})>>) >>

RUST_PATTERNS == <<
    AtStart(<<Star(Sp), One({"use"}), Plus(Sp), One({"std"}), One({"::"})>>),
    AtStart(<<Star(Sp), One({"fn"}), Plus(Sp), Plus(Word)>>),
    AtStart(<<Star(Sp), One({"let"}), Plus(Sp), Plus(Word)>>),
    AtStart(<<Star(Sp), One({"impl"}), Plus(Sp)>>),
    AtStart(<<Star(Sp), One({"pub"}), Plus(Sp), One({"fn", "struct", "enum"})>>),
    Anywhere(<<One({"::"}), Star(Sp), One({"unwrap()"})>>),
    Anywhere(<<One({"."}), Star(Sp), One({"ok()"})>>),
    Anywhere(<<One({"."}), Star(Sp), One({"map("})>>) >>

BASH_PATTERNS == <<
    Anywhere(<<One({"$"}), Plus(Sp),
               One({"brew", "gst-launch", "gst-inspect", "http", "uvicorn"})>>),
    AtStart(<<Star(Sp), One({"brew"}), Plus(Sp)>>),
    AtStart(<<Star(Sp), One({"gst-launch"})>>),
    AtStart(<<Star(Sp), One({"gst-inspect"})>>),
    Anywhere(<<One({"depends_on"}), Plus(Sp), One({"dq"})>>) >>

\* "2024-01-01" is a YYYY-MM-DD lexeme, "10:00" an HH:MM lexeme, "tree" one of
\* the box-drawing characters
TEXT_PATTERNS == <<
    AtStart(<<One({"2024-01-01"}), Plus(Sp), One({"10:00"})>>),
    AtStart(<<Star(Sp), One({"tree"})>>),
    Anywhere(<<One({"WARNING:"})>>),
    Anywhere(<<One({"<Response"}), Plus(Sp), One({"["})>>),
    Anywhere(<<One({"#"}), Plus(Sp), One({"file"}), Plus(Sp)>>) >>

\* code_lines[:5]
TextScanLines == 5
\* "if max_score >= 2"
MinScore == 2

----------------------------------------------------------------------------
(* Content Classifier *)

\* [line for line in code.strip().split('\n') if line.strip()]
code_lines_of(c) == SelectSeq(split(strip(c)), LAMBDA l : strip(l) # <<>>)

\* any(re.search(pattern, line) for line in lines)
any_match(p, lines) == \E k \in 1..Len(lines) : re_search(p, lines[k])

\* (mutant) one point per matching line instead of one per matching pattern
score_per_line(patterns, lines) ==
    Cardinality({nk \in (1..Len(patterns)) \X (1..Len(lines)) :
                    re_search(patterns[nk[1]], lines[nk[2]])})

\* number of patterns of the list that match some line
score(patterns, lines) ==
    Cardinality({n \in 1..Len(patterns) : any_match(patterns[n], lines)})

\* code_lines[:5]
first_lines(lines) ==
    SubSeq(lines, 1, IF Len(lines) < TextScanLines THEN Len(lines) ELSE TextScanLines)

text_marker(lines) ==
    With(first_lines(lines), LAMBDA head :
        \E n \in 1..Len(TEXT_PATTERNS) : any_match(TEXT_PATTERNS[n], head))

\* (mutant) the last entry holding the largest score
max_by_score_last(scores0) ==
    With(scores0, LAMBDA scores :
        scores[CHOOSE k \in 1..Len(scores) :
                   /\ \A m \in 1..Len(scores) : scores[m][2] <= scores[k][2]
                   /\ \A m \in (k + 1)..Len(scores) : scores[m][2] < scores[k][2]])

\* max(scores, key=lambda x: x[1]): the first entry holding the largest score
max_by_score(scores0) ==
    With(scores0, LAMBDA scores :
        scores[CHOOSE k \in 1..Len(scores) :
                   /\ \A m \in 1..Len(scores) : scores[m][2] <= scores[k][2]
                   /\ \A m \in 1..(k - 1) : scores[m][2] < scores[k][2]])

\* scores = [('python', python_score), ('rust', rust_score), ('bash', bash_score)]
language_scores(code_lines) ==
    << <<"python", score(PYTHON_PATTERNS, code_lines)>>,
       <<"rust",   score(RUST_PATTERNS, code_lines)>>,
       <<"bash",   score(BASH_PATTERNS, code_lines)>> >>

\* (mutant) the plain-output markers are consulted only when no language wins
detect_language_scoring_first(c) ==
    With(code_lines_of(c), LAMBDA code_lines :
        IF code_lines = <<>> THEN None
        ELSE With(max_by_score(language_scores(code_lines)), LAMBDA top :
                IF top[2] >= MinScore THEN top[1]
                ELSE IF text_marker(code_lines) THEN "text"
                ELSE None))

detect_language_from_content(c) ==
    With(code_lines_of(c), LAMBDA code_lines :
        IF code_lines = <<>> THEN None
        ELSE IF text_marker(code_lines) THEN "text"
        ELSE With(max_by_score(language_scores(code_lines)), LAMBDA top :
                IF top[2] >= MinScore THEN top[1] ELSE None))

----------------------------------------------------------------------------
(* Snippets the classifier is run on *)

SampleLines == {
    <<"sp">>,
    <<"import", "sp", "w">>,
    <<"sp", "def", "sp", "w", "::", "unwrap()">>,
    <<"let", "sp", "w">>,
    <<"brew", "sp", "w", "sp", "depends_on", "sp", "dq">>,
    <<"2024-01-01", "sp", "10:00">>,
    <<"sp", "2024-01-01", "sp", "10:00", "sp", "import", "sp", "w">>,
    <<"w", "sp", "WARNING:">>,
    <<"#", "sp", "file", "sp">> }

\* neutral lines in front of the body: none, as many as put the body's first
\* line on the last scanned line, and as many as put it just beyond
Paddings == {0, TextScanLines - 1, TextScanLines}

RECURSIVE join_nl(_)
join_nl(lines) ==
    IF lines = <<>> THEN <<>>
    ELSE IF Len(lines) = 1 THEN lines[1]
    ELSE lines[1] \o <<"nl">> \o join_nl(Tail(lines))

\* block contents reach the classifier with their trailing whitespace removed
\* (find_code_blocks: match.group(1).rstrip())
Snippets ==
    {rstrip(join_nl(Repeat(<<"w">>, pad) \o body)) :
        pad \in Paddings, body \in SeqsUpTo(SampleLines, MaxBody)}

InitClassify ==
    /\ code \in Snippets
    /\ label = "unset"
    /\ cpc = "start"
    /\ det_context = NoContext /\ det_language = "unset" /\ det_block = <<>>
    /\ RewriterIdle /\ MigrationIdle /\ DownloadIdle /\ GistIdle

Classify ==
    /\ cpc = "start"
    /\ label' = detect_language_from_content(code)
    /\ cpc' = "done"
    /\ UNCHANGED <<code, det_context, det_language, det_block, rvars, mvars, dvars, gvars>>

NextClassify == Classify

SpecClassify == InitClassify /\ [][NextClassify]_vars

----------------------------------------------------------------------------
(* Claims about the Content Classifier (checked under SpecClassify) *)

\* the non-blank lines of the snippet as written, nothing trimmed
RawLines(c) == SelectSeq(split(c), LAMBDA l : \E k \in 1..Len(l) : ~IsSpace(l[k]))

\* the patterns of a list with a matching line somewhere in the snippet
Matching(patterns, c) ==
    LET lines == RawLines(strip(c))
    IN  {n \in 1..Len(patterns) : \E k \in 1..Len(lines) : re_search(patterns[n], lines[k])}

PyScore   == Cardinality(Matching(PYTHON_PATTERNS, code))
RustScore == Cardinality(Matching(RUST_PATTERNS, code))
BashScore == Cardinality(Matching(BASH_PATTERNS, code))

\* some plain-output marker matches one of the first `limit` lines
MarkerAt(lines, limit) ==
    \E n \in 1..Len(TEXT_PATTERNS) : \E k \in 1..Len(lines) :
        k <= limit /\ re_search(TEXT_PATTERNS[n], lines[k])

\* the non-blank lines of the snippet without its surrounding whitespace
TrimmedLines(c) == RawLines(strip(c))

\* some plain-output marker matches some line of the snippet, as written or
\* with the snippet's surrounding whitespace removed
MarkerSomewhere ==
    LET raw == RawLines(code)
        trimmed == TrimmedLines(code)
    IN  MarkerAt(raw, Len(raw)) \/ MarkerAt(trimmed, Len(trimmed))

\* some plain-output marker matches one of the first five non-blank lines
MarkerInFirstFive == MarkerAt(TrimmedLines(code), TextScanLines)

RawMarkerInFirstFive == MarkerAt(RawLines(code), TextScanLines)

\* the first non-blank line, indentation aside, starts with YYYY-MM-DD HH:MM
FirstLineTimestamp ==
    /\ RawLines(code) # <<>>
    /\ re_search(TEXT_PATTERNS[1], lstrip(RawLines(code)[1]))

\* C1: with no plain-output marker matching, the result is the language with
\* the highest count of distinct matching patterns, ties going to python, then
\* rust, then bash, and none unless that count is at least 2; a snippet with
\* at least 2 matches in exactly one language gets that language.
C1_HighestScoreWins ==
    (cpc = "done" /\ ~MarkerSomewhere) =>
        /\ label = (IF PyScore >= 2 /\ PyScore >= RustScore /\ PyScore >= BashScore
                        THEN "python"
                    ELSE IF RustScore >= 2 /\ RustScore >= BashScore THEN "rust"
                    ELSE IF BashScore >= 2 THEN "bash"
                    ELSE None)
        /\ (PyScore >= 2 /\ RustScore < 2 /\ BashScore < 2 => label = "python")
        /\ (RustScore >= 2 /\ PyScore < 2 /\ BashScore < 2 => label = "rust")
        /\ (BashScore >= 2 /\ PyScore < 2 /\ RustScore < 2 => label = "bash")

\* a python/rust tie at 2 resolved for python
C1_Witness ==
    /\ cpc = "done" /\ ~MarkerSomewhere
    /\ PyScore = 2 /\ RustScore = 2 /\ label = "python"

\* C2 (as claimed): fewer than 2 matches in every language gives none.
C2_Original_LowScoresGiveNone ==
    (cpc = "done" /\ PyScore < 2 /\ RustScore < 2 /\ BashScore < 2) => label = None

\* C2 (amended): fewer than 2 matches in every language gives none when no
\* plain-output marker matches one of the first five non-blank lines, and
\* the plain-text label when one does.
C2_LowScoresGiveNoneOrText ==
    (cpc = "done" /\ PyScore < 2 /\ RustScore < 2 /\ BashScore < 2) =>
        label = (IF MarkerInFirstFive THEN "text" ELSE None)

\* one match in each of python and rust, no marker: none
C2_Witness ==
    /\ cpc = "done" /\ ~MarkerInFirstFive
    /\ PyScore = 1 /\ RustScore = 1 /\ BashScore < 2 /\ label = None

\* C3: a snippet whose first line is a timestamp line is classified as plain
\* text whatever the language scores are, and so is every snippet with a
\* plain-output marker matching one of its first five non-blank lines.
C3_MarkersTakePriority ==
    (cpc = "done" /\ (FirstLineTimestamp \/ MarkerInFirstFive \/ RawMarkerInFirstFive))
        => label = "text"

\* a timestamp first line above code that scores 2 or more for python
C3_Witness ==
    /\ cpc = "done" /\ FirstLineTimestamp /\ PyScore >= 2 /\ label = "text"

----------------------------------------------------------------------------
(* Context Classifier *)

\* re.match(r'^\+\+\+\s*\n(.*?)\n\+\+\+', content, re.DOTALL): group(1), or
\* nothing when there is no match (no line, so no key, either way).  \s*\n
\* ends on a newline of the whitespace run after the opening "+++"; the
\* group runs lazily up to the first newline followed by "+++".
frontmatter_body(content0) ==
    With(content0, LAMBDA content :
        IF content = <<>> \/ content[1] # "+++" THEN <<>>
        ELSE With({m \in 2..(Len(content) - 1) : content[m] = "nl" /\ content[m + 1] = "+++"},
               LAMBDA ends :
                 With({a \in 2..RunEnd(content, 1) :
                          Newlines(content[a]) > 0 /\ \E m \in ends : m > a},
                   LAMBDA starts :
                     IF starts = {} THEN <<>>
                     ELSE SubSeq(content, Max(starts) + 1,
                                 Min({m \in ends : m > Max(starts)}) - 1))))

\* key, value = line.split('=', 1); key.strip() and value.strip().strip('"[]')
frontmatter_entry(line0) ==
    With(line0, LAMBDA line :
        With(Min({k \in 1..Len(line) : line[k] = "="}), LAMBDA eq :
            <<strip(SubSeq(line, 1, eq - 1)),
              strip_quotes(strip(SubSeq(line, eq + 1, Len(line))))>>))

\* the dict as the list of its (key, value) assignments, in order
parse_frontmatter(content) ==
    With(SelectSeq(split(frontmatter_body(content)), LAMBDA l : contains(l, "=")),
         LAMBDA lines : [k \in 1..Len(lines) |-> frontmatter_entry(lines[k])] \o <<>>)

\* frontmatter.get(key, ''): the last assignment to the key
fm_get(frontmatter, key) ==
    With({k \in 1..Len(frontmatter) : frontmatter[k][1] = <<key>>}, LAMBDA hits :
        IF hits = {} THEN <<>> ELSE frontmatter[Max(hits)][2])

detect_language_from_context(name, frontmatter) ==
    With(<<lower(name), lower(fm_get(frontmatter, "categories")),
           lower(fm_get(frontmatter, "tags"))>>, LAMBDA x :
        LET filename == x[1]
            categories == x[2]
            tags == x[3]
        IN  IF contains(filename, "python") \/ contains(filename, "fastapi") THEN "python"
            ELSE IF contains(filename, "rust") THEN "rust"
            ELSE IF contains(categories, "python") \/ contains(tags, "python")
                    \/ contains(tags, "fastapi") THEN "python"
            ELSE IF contains(categories, "rust") \/ contains(tags, "rust") THEN "rust"
            ELSE None)

\* (mutant) the context label is preferred to the content label
detect_language_context_first(c, context) ==
    With(<<detect_language_from_context(context.filepath, context.frontmatter),
           detect_language_from_content(c)>>, LAMBDA x :
        IF x[1] # None THEN x[1] ELSE IF x[2] # None THEN x[2] ELSE "")

\* '' when neither classifier resolves a language
detect_language(c, context) ==
    With(<<detect_language_from_context(context.filepath, context.frontmatter),
           detect_language_from_content(c)>>, LAMBDA x :
        LET context_lang == x[1]
            content_lang == x[2]
        IN  IF content_lang # None THEN content_lang
            ELSE IF context_lang # None THEN context_lang
            ELSE "")

----------------------------------------------------------------------------
(* Block Rewriter *)

NoMatch == [start |-> 0, end |-> 0, content |-> <<>>, full_match |-> <<>>]

\* the match of r'\[code\]\s*\n(.*?)\[/code\]' (re.DOTALL) that starts at
\* position i, or NoMatch.  Positions are 1-based; "end" is the position
\* right after the match.  \s*\n ends on the last newline of the whitespace
\* run after "[code]"; the group runs lazily up to the first "[/code]".
match_block(content, i) ==
    IF content[i] # "[code]" THEN NoMatch
    ELSE With({k \in (i + 1)..RunEnd(content, i) : Newlines(content[k]) > 0},
           LAMBDA newlines :
             IF newlines = {} THEN NoMatch
             ELSE With(Max(newlines), LAMBDA n :
                    With({k \in (n + 1)..Len(content) : content[k] = "[/code]"},
                      LAMBDA closes :
                        IF closes = {} THEN NoMatch
                        ELSE With(Min(closes), LAMBDA c :
                               [start |-> i, end |-> c + 1,
                                content |-> rstrip(SubSeq(content, n + 1, c - 1)),
                                full_match |-> SubSeq(content, i, c)]))))

\* re.finditer: leftmost, non-overlapping matches in document order
RECURSIVE find_from(_, _, _)
find_from(content, pos, acc) ==
    IF pos > Len(content) THEN acc
    ELSE With(match_block(content, pos), LAMBDA m :
            IF m = NoMatch THEN find_from(content, pos + 1, acc)
            ELSE With(Append(acc, m), LAMBDA found : find_from(content, m.end, found)))

find_code_blocks(content0) == With(content0, LAMBDA content : find_from(content, 1, <<>>))

\* (mutant) the closing fence is left out
convert_code_block_unclosed(c, language) ==
    IF language # "" THEN <<"fence", language, "nl">> \o c
    ELSE <<"fence", "nl">> \o c

convert_code_block(c, language) ==
    IF language # "" THEN <<"fence", language, "nl">> \o c \o <<"nl", "fence">>
    ELSE <<"fence", "nl">> \o c \o <<"nl", "fence">>

\* re.sub of a pattern of three lexemes whose matches cannot overlap
sub3(s0, pattern, replacement) ==
    With(s0, LAMBDA s :
        With({k \in 1..(Len(s) - 2) : SubSeq(s, k, k + 2) = pattern}, LAMBDA hits :
            Concat([k \in 1..Len(s) |->
                      IF k \in hits THEN replacement
                      ELSE IF (k - 1) \in hits \/ (k - 2) \in hits THEN <<>>
                      ELSE <<s[k]>>] \o <<>>)))

\* "link(" is the text 'Or [using the actual GStreamer bindings for Python]('
\* and "text:" the text 'Or using the actual GStreamer bindings for Python:'
fix_syntax_errors_gstreamer_post(content) ==
    sub3(sub3(content, <<"link(", "fence", "python">>,
                       <<"text:", "nl", "nl", "fence", "python">>),
         <<"fence", "nl", ").">>, <<"fence", "nl", "nl", ").">>)

\* "if line_diff > 15"
LineTolerance == 15

\* (mutant) the legacy-marker checks are left out
validate_conversion_no_marker_check(orig, conv) ==
    (IF count(conv, "fence") % 2 # 0 THEN <<"Unbalanced code fences">> ELSE <<>>)
    \o (IF Abs(num_lines(orig) - num_lines(conv)) > LineTolerance
        THEN <<"Line count changed significantly">> ELSE <<>>)

\* (mutant) the line counts are not compared
validate_conversion_no_line_check(orig, conv) ==
    (IF contains(lower(conv), "[code]") THEN <<"Legacy [code] tags still present">> ELSE <<>>)
    \o (IF contains(lower(conv), "[/code]") THEN <<"Legacy [/code] tags still present">> ELSE <<>>)
    \o (IF count(conv, "fence") % 2 # 0 THEN <<"Unbalanced code fences">> ELSE <<>>)

validate_conversion(orig, conv) ==
    (IF contains(lower(conv), "[code]") THEN <<"Legacy [code] tags still present">> ELSE <<>>)
    \o (IF contains(lower(conv), "[/code]") THEN <<"Legacy [/code] tags still present">> ELSE <<>>)
    \o (IF count(conv, "fence") % 2 # 0 THEN <<"Unbalanced code fences">> ELSE <<>>)
    \o (IF Abs(num_lines(orig) - num_lines(conv)) > LineTolerance
        THEN <<"Line count changed significantly">> ELSE <<>>)

\* (mutant) the blocks are replaced from first to last at their offsets
RECURSIVE patch_forward_from(_, _, _, _)
patch_forward_from(conv, blks, j, context) ==
    IF j > Len(blks) THEN conv
    ELSE With(blks[j], LAMBDA block :
           With(convert_code_block(block.content, detect_language(block.content, context)),
             LAMBDA new_block :
               With(SubSeq(conv, 1, block.start - 1) \o new_block
                        \o SubSeq(conv, block.end, Len(conv)),
                 LAMBDA patched : patch_forward_from(patched, blks, j + 1, context))))

patch_forward(conv, blks, k, context) == patch_forward_from(conv, blks, 1, context)

\* for block in reversed(blocks): converted = converted[:start] + new + converted[end:]
RECURSIVE patch_reversed(_, _, _, _)
patch_reversed(conv, blks, k, context) ==
    IF k = 0 THEN conv
    ELSE With(blks[k], LAMBDA block :
           With(convert_code_block(block.content, detect_language(block.content, context)),
             LAMBDA new_block :
               With(SubSeq(conv, 1, block.start - 1) \o new_block
                        \o SubSeq(conv, block.end, Len(conv)),
                 LAMBDA patched : patch_reversed(patched, blks, k - 1, context))))

\* the rewrite of process_file up to validation
rewrite(name, orig, blks) ==
    With([filepath |-> name, frontmatter |-> parse_frontmatter(orig)], LAMBDA context :
        With(patch_reversed(orig, blks, Len(blks), context), LAMBDA patched :
            IF contains(name, "2025-11-17") THEN fix_syntax_errors_gstreamer_post(patched)
            ELSE patched))

NotFound(content) ==
    [disk |-> content, original |-> content, blocks |-> <<>>,
     converted |-> <<>>, issues |-> <<>>, wrote |-> FALSE,
     ret |-> [success |-> FALSE, count |-> 0, issues |-> <<>>]]

\* (mutant) the file is written before the rewrite is validated
process_file_write_first(name, content, dry) ==
    With(find_code_blocks(content), LAMBDA blks :
        IF blks = <<>> THEN NotFound(content)
        ELSE With(rewrite(name, content, blks), LAMBDA conv :
               With(validate_conversion(content, conv), LAMBDA iss :
                 [disk |-> IF dry THEN content ELSE conv, original |-> content,
                  blocks |-> blks, converted |-> conv, issues |-> iss, wrote |-> ~dry,
                  ret |-> IF iss # <<>>
                          THEN [success |-> FALSE, count |-> 0, issues |-> iss]
                          ELSE [success |-> TRUE, count |-> Len(blks), issues |-> <<>>]])))

\* process_file on a file holding `content`: the file afterwards, the locals
\* (converted is not assigned when no block is found) and the return value
process_file(name, content, dry) ==
    With(find_code_blocks(content), LAMBDA blks :
        IF blks = <<>> THEN NotFound(content)
        ELSE With(rewrite(name, content, blks), LAMBDA conv :
               With(validate_conversion(content, conv), LAMBDA iss :
                 IF iss # <<>>
                 THEN [disk |-> content, original |-> content, blocks |-> blks,
                       converted |-> conv, issues |-> iss, wrote |-> FALSE,
                       ret |-> [success |-> FALSE, count |-> 0, issues |-> iss]]
                 ELSE [disk |-> IF dry THEN content ELSE conv, original |-> content,
                       blocks |-> blks, converted |-> conv, issues |-> iss, wrote |-> ~dry,
                       ret |-> [success |-> TRUE, count |-> Len(blks), issues |-> <<>>]])))

----------------------------------------------------------------------------
(* Documents the rewriter is run on *)

PythonBlock == <<"[code]", "nl", "import", "sp", "w", "nl", "def", "sp", "w", "nl", "[/code]">>
BlankRunBlock == <<"[code]", "sp", "nlrun", "w", "nl", "[/code]">>

Segments == {
    PythonBlock,
    BlankRunBlock,
    <<"[code]", "nl">>,
    <<"[code]", "sp">>,
    <<"[/code]">>,
    <<"[CODE]">>,
    <<"fence">>,
    <<"nl", ").", "nl", "link(">> }

RustHeader == <<"+++", "nl", "title", "sp", "=", "sp", "dq", "w", "dq", "nl",
                "tags", "sp", "=", "sp", "[", "dq", "Rust", "dq", "]", "nl", "+++", "nl">>

\* a file name, a preamble and the number of segments of the body; the
\* files with a preamble or with the name of the 2025-11-17 post are one
\* segment shorter
Contexts == {
    [name |-> <<"post", ".md">>, header |-> <<>>, segs |-> MaxSegs],
    [name |-> <<"post", ".md">>, header |-> RustHeader, segs |-> MaxSegs - 1],
    [name |-> <<"2025-11-17", "-", "gstreamer", ".md">>, header |-> <<>>,
     segs |-> MaxSegs - 1] }

Documents(header, n) == {header \o Concat(segs) : segs \in SeqsUpTo(Segments, n)}

InitRewrite ==
    /\ \E c \in Contexts : filepath = c.name /\ disk \in Documents(c.header, c.segs)
    /\ dry_run = FALSE /\ original = <<>> /\ blocks = <<>> /\ converted = <<>>
    /\ issues = <<>> /\ wrote = FALSE /\ ret = NoReturn /\ prev_wrote = FALSE
    /\ total_files = 0 /\ total_blocks = 0 /\ failed_files = <<>> /\ runs = 0
    /\ ClassifierIdle /\ MigrationIdle /\ DownloadIdle /\ GistIdle

\* one run of main on the file: process_file and the summary counters
ConvertRun ==
    /\ runs < MaxRuns
    /\ \E dry \in BOOLEAN :
         \E r \in {process_file(filepath, disk, dry)} :
             /\ dry_run' = dry
             /\ disk' = r.disk
             /\ original' = r.original
             /\ blocks' = r.blocks
             /\ converted' = r.converted
             /\ issues' = r.issues
             /\ wrote' = r.wrote
             /\ ret' = r.ret
             /\ total_files' = IF r.ret.success THEN 1 ELSE 0
             /\ total_blocks' = IF r.ret.success THEN r.ret.count ELSE 0
             /\ failed_files' = IF ~r.ret.success /\ r.ret.issues # <<>>
                                THEN << <<filepath, r.ret.issues>> >> ELSE <<>>
    /\ prev_wrote' = wrote
    /\ runs' = runs + 1
    /\ UNCHANGED <<filepath, cvars, mvars, dvars, gvars>>

NextRewrite == ConvertRun

SpecRewrite == InitRewrite /\ [][NextRewrite]_vars

----------------------------------------------------------------------------
(* Claims about the Block Rewriter (checked under SpecRewrite) *)

Fences(doc) == Cardinality({k \in 1..Len(doc) : doc[k] = "fence"})

\* legacy markers in any letter case
OpenMarkers(doc) == Cardinality({k \in 1..Len(doc) : doc[k] \in {"[code]", "[CODE]"}})
CloseMarkers(doc) == Cardinality({k \in 1..Len(doc) : doc[k] \in {"[/code]", "[/CODE]"}})

LineCount(doc) ==
    1 + Cardinality({k \in 1..Len(doc) : doc[k] = "nl"})
      + BlankRun * Cardinality({k \in 1..Len(doc) : doc[k] = "nlrun"})

\* the last call found blocks and rewrote them
Rewrote == runs > 0 /\ blocks # <<>>

\* C4 (as claimed): a document with N located blocks is rewritten into one
\* with exactly 2N fence markers and no legacy marker.
C4_Original_TwoNFencesNoMarkers ==
    Rewrote =>
        /\ Fences(converted) = 2 * Len(blocks)
        /\ OpenMarkers(converted) = 0
        /\ CloseMarkers(converted) = 0

\* C4 (amended): the rewrite of a document with N located blocks holds 2N
\* fence markers more, N opening and N closing legacy markers fewer than the
\* document; so 2N fence markers and no legacy marker when the document has
\* no fence marker of its own and no legacy marker besides the delimiters of
\* the N blocks.
C4_RewriteCounts ==
    Rewrote =>
        /\ Fences(converted) = Fences(original) + 2 * Len(blocks)
        /\ OpenMarkers(converted) = OpenMarkers(original) - Len(blocks)
        /\ CloseMarkers(converted) = CloseMarkers(original) - Len(blocks)
        /\ (/\ Fences(original) = 0
            /\ OpenMarkers(original) = Len(blocks)
            /\ CloseMarkers(original) = Len(blocks))
           => (/\ Fences(converted) = 2 * Len(blocks)
               /\ OpenMarkers(converted) = 0
               /\ CloseMarkers(converted) = 0)

\* two blocks, nothing else marked or fenced, rewritten and written
C4_Witness ==
    /\ Rewrote /\ Len(blocks) = 2 /\ wrote
    /\ Fences(original) = 0 /\ OpenMarkers(original) = 2 /\ CloseMarkers(original) = 2
    /\ Fences(disk) = 4

\* one of the three validation conditions fails for the rewrite
Invalid ==
    \/ OpenMarkers(converted) > 0
    \/ CloseMarkers(converted) > 0
    \/ Fences(converted) % 2 = 1
    \/ LineCount(original) - LineCount(converted) > LineTolerance
    \/ LineCount(converted) - LineCount(original) > LineTolerance

\* C5: the file is written only when validation reports no issue and dry-run
\* is off; when validation reports an issue the file is unchanged and the
\* issues are returned with success = False (and recorded by main); in
\* dry-run mode the file is never written.
C5_WriteOnlyWhenValid ==
    runs > 0 =>
        /\ wrote => (issues = <<>> /\ ~dry_run /\ ~(Rewrote /\ Invalid))
        /\ disk # original => wrote
        /\ (Rewrote /\ Invalid) => issues # <<>>
        /\ issues # <<>> =>
              /\ disk = original /\ ~wrote
              /\ ret = [success |-> FALSE, count |-> 0, issues |-> issues]
              /\ failed_files = << <<filepath, issues>> >>
        /\ dry_run => (disk = original /\ ~wrote)

\* a rewrite rejected for its line count with dry-run off: nothing written
C5_Witness ==
    /\ Rewrote /\ ~dry_run /\ disk = original
    /\ LineCount(original) - LineCount(converted) > LineTolerance
    /\ ret.success = FALSE /\ Len(ret.issues) = 1

\* C6: on a document without legacy markers process_file writes nothing and
\* reports no converted block; so a run that follows a successful conversion
\* leaves the document unchanged.
C6_Idempotent ==
    runs > 0 =>
        /\ (OpenMarkers(original) = 0 /\ CloseMarkers(original) = 0) =>
              /\ ~wrote /\ disk = original
              /\ ret = [success |-> FALSE, count |-> 0, issues |-> <<>>]
              /\ total_blocks = 0
        /\ prev_wrote =>
              /\ ~wrote /\ disk = original
              /\ ret = [success |-> FALSE, count |-> 0, issues |-> <<>>]
              /\ total_blocks = 0

\* a second run on a document the first run converted and wrote
C6_Witness ==
    /\ runs = 2 /\ prev_wrote /\ Fences(original) > 0 /\ disk = original /\ ~wrote

\* C15: a document process_file has written is the rewrite, holds no legacy
\* marker in any letter case, an even number of fence markers, and its line
\* count is within 15 of the original's; a rewrite that breaks one of the
\* three conditions is not written.
C15_PersistedIsValid ==
    runs > 0 =>
        /\ wrote =>
              /\ disk = converted
              /\ \A k \in 1..Len(disk) :
                    disk[k] \notin {"[code]", "[CODE]", "[/code]", "[/CODE]"}
              /\ Fences(disk) % 2 = 0
              /\ LineCount(original) - LineCount(disk) <= LineTolerance
              /\ LineCount(disk) - LineCount(original) <= LineTolerance
        /\ (Rewrote /\ Invalid) => (~wrote /\ disk = original /\ disk # converted)

\* a rewrite that loses exactly 15 lines is written
C15_Witness ==
    /\ wrote /\ disk = converted /\ Len(blocks) = 1
    /\ LineCount(original) - LineCount(disk) = LineTolerance
    /\ Fences(disk) = 2

\* the context process_file builds for the file
FileContext == [filepath |-> filepath, frontmatter |-> parse_frontmatter(original)]

\* the fenced replacement of the k-th block
Replacement(k) ==
    convert_code_block(blocks[k].content, detect_language(blocks[k].content, FileContext))

\* the text of the original between block k and block k + 1 (before the
\* first block for k = 0, after the last one for k = Len(blocks))
Between(k) ==
    SubSeq(original,
           IF k = 0 THEN 1 ELSE blocks[k].end,
           IF k = Len(blocks) THEN Len(original) ELSE blocks[k + 1].start - 1)

\* literal text and replacements put together in document order
Rebuilt ==
    Concat([j \in 1..(2 * Len(blocks) + 1) |->
               IF j % 2 = 1 THEN Between((j - 1) \div 2) ELSE Replacement(j \div 2)])

\* C16: the blocks found lie in document order without overlap, each on its
\* own text of the original; patching them from last to first at their
\* original offsets gives the document built from the texts between the
\* blocks and the fenced replacements in order (for the 2025-11-17 post the
\* syntax fixes are then applied to it).
C16_PatchingIsRebuilding ==
    Rewrote =>
        /\ \A k \in 1..Len(blocks) :
              /\ 1 <= blocks[k].start /\ blocks[k].start < blocks[k].end
              /\ blocks[k].end <= Len(original) + 1
              /\ blocks[k].full_match
                     = SubSeq(original, blocks[k].start, blocks[k].end - 1)
              /\ original[blocks[k].start] = "[code]"
              /\ original[blocks[k].end - 1] = "[/code]"
        /\ \A k \in 1..(Len(blocks) - 1) : blocks[k].end <= blocks[k + 1].start
        /\ converted = IF \E k \in 1..Len(filepath) : filepath[k] = "2025-11-17"
                       THEN fix_syntax_errors_gstreamer_post(Rebuilt)
                       ELSE Rebuilt

\* two blocks with text between them, the rewrite shorter than the original
C16_Witness ==
    /\ Rewrote /\ Len(blocks) = 2
    /\ blocks[1].end < blocks[2].start
    /\ Len(converted) < Len(original)
    /\ converted = Rebuilt

----------------------------------------------------------------------------
(* Document Converter (migrate_wordpress.py) *)

\* d[k] = v on a dict d
Put(d0, k, v) ==
    With(d0, LAMBDA d : [x \in DOMAIN d \cup {k} |-> IF x = k THEN v ELSE d[x]])

\* the text an f-string puts for a value of get_xml_text, which is None
\* (written <<>>) for an absent or empty element
fmt(x) == IF x = <<>> THEN <<"None">> ELSE x

\* the date a year-month-day lexeme stands for when its fields may lack the
\* leading zero (strptime), "" when it is no date
LooseYmd(t) ==
    CASE t \in {"2021-07-08", "2021-7-8"} -> "2021-07-08"
      [] t \in {"2022-10-01", "2022-10-1"} -> "2022-10-01"
      [] OTHER -> ""

\* the same when every field has to be zero-padded (fromisoformat)
StrictYmd(t) == IF t \in {"2021-07-08", "2022-10-01"} THEN t ELSE ""

LooseHms(t) == t \in {"08:56:00", "8:56:0", "12:00:00"}
StrictHms(t) == t \in {"08:56:00", "12:00:00"}

\* datetime.strptime(s, '%Y-%m-%d %H:%M:%S').strftime('%Y-%m-%d'); <<>> when
\* strptime raises (ValueError, or TypeError for None)
strptime_date(s0) ==
    With(s0, LAMBDA s :
        IF Len(s) = 3 /\ s[2] = " " /\ LooseYmd(s[1]) # "" /\ LooseHms(s[3])
        THEN <<LooseYmd(s[1])>> ELSE <<>>)

\* wp_date.replace('Z', '+00:00')
replace_Z(s0) ==
    With(s0, LAMBDA s : [k \in 1..Len(s) |-> IF s[k] = "Z" THEN "+00:00" ELSE s[k]] \o <<>>)

\* datetime.fromisoformat(s).strftime('%Y-%m-%d'); <<>> when it raises
fromisoformat_date(s0) ==
    With(s0, LAMBDA s :
        IF /\ Len(s) \in {1, 3, 4}
           /\ StrictYmd(s[1]) # ""
           /\ Len(s) >= 3 => (s[2] \in {"T", " "} /\ StrictHms(s[3]))
           /\ Len(s) = 4 => s[4] = "+00:00"
        THEN <<s[1]>> ELSE <<>>)

\* (mutant) a text that neither parser reads is returned as it is
convert_date_keep_text(wp_date) ==
    With(strptime_date(wp_date), LAMBDA dt :
        IF dt # <<>> THEN dt
        ELSE With(fromisoformat_date(replace_Z(wp_date)), LAMBDA iso :
               IF iso # <<>> THEN iso ELSE wp_date))

\* convert_date: '' (written <<>>) when both parsers raise
convert_date(wp_date) ==
    With(strptime_date(wp_date), LAMBDA dt :
        IF dt # <<>> THEN dt ELSE fromisoformat_date(replace_Z(wp_date)))

POSTS_DIR == <<"content/blog/">>

\* the name of the file written for a published record
post_filename(date, slug) ==
    IF date # <<>> THEN date \o <<"-">> \o fmt(slug) \o <<".md">>
    ELSE fmt(slug) \o <<".md">>

\* \w of the pattern: the letters among the characters of a label
WordChars == {"A", "a", "uncategorized", "Uncategorized"}

\* (mutant) a character outside the permitted set is dropped
sanitize_filename_dropping(name) ==
    SelectSeq(name, LAMBDA ch : ch \in WordChars \cup {"-", "_", "."})

\* re.sub(r'[^\w\-_.]', '_', name)
sanitize_filename(name) ==
    [k \in 1..Len(name) |->
        IF name[k] \in WordChars \cup {"-", "_", "."} THEN name[k] ELSE "_"] \o <<>>

\* name.replace(' ', '-')
replace_space(name) ==
    [k \in 1..Len(name) |-> IF name[k] = " " THEN "-" ELSE name[k]] \o <<>>

\* the slug of a category or tag name
label_slug(name0) ==
    With(name0, LAMBDA name :
        With(replace_space(lower(name)), LAMBDA hyphened : sanitize_filename(hyphened)))

\* the slugs of the named labels of a domain, in order
slugs_of(labels0) ==
    With(labels0, LAMBDA labels :
        [k \in 1..Len(labels) |-> label_slug(labels[k].text)] \o <<>>)

\* migrate_post: categories (a label without text, or named Uncategorized,
\* is left out)
categories_of(item) ==
    slugs_of(SelectSeq(item.category, LAMBDA cat :
        cat.domain = "category" /\ cat.text # <<>> /\ cat.text # <<"Uncategorized">>))

\* migrate_post: tags
tags_of(item) ==
    slugs_of(SelectSeq(item.category, LAMBDA cat :
        cat.domain = "post_tag" /\ cat.text # <<>>))

\* (mutant) the status of the record is not looked at
migrate_post_any_status(item, fs) ==
    With(convert_date(item.post_date), LAMBDA date :
        With(POSTS_DIR \o post_filename(date, item.slug), LAMBDA path :
            [result |-> << [title |-> item.title, slug |-> item.slug,
                            link |-> item.link, date |-> date, file |-> path] >>,
             files |-> Put(fs, path, [title |-> item.title, date |-> date,
                                      slug |-> fmt(item.slug),
                                      categories |-> categories_of(item),
                                      tags |-> tags_of(item)])]))

\* migrate_post: the value returned (<<>> for None, else the one result) and
\* the files afterwards; a file holds the preamble written from the record
migrate_post(item, fs) ==
    IF item.status # "publish" THEN [result |-> <<>>, files |-> fs]
    ELSE With(convert_date(item.post_date), LAMBDA date :
           With(POSTS_DIR \o post_filename(date, item.slug), LAMBDA path :
             [result |-> << [title |-> item.title, slug |-> item.slug,
                             link |-> item.link, date |-> date, file |-> path] >>,
              files |-> Put(fs, path, [title |-> item.title, date |-> date,
                                       slug |-> fmt(item.slug),
                                       categories |-> categories_of(item),
                                       tags |-> tags_of(item)])]))

\* the new path of a migrated post
zola_path(post) ==
    <<"/blog/">> \o (IF post.date # <<>> THEN post.date \o <<"-">> \o post.slug
                     ELSE post.slug) \o <<"/">>

\* (mutant) the URL is used as the key with its trailing slashes
RECURSIVE redirects_keep_slash(_, _, _)
redirects_keep_slash(mp, k, acc0) ==
    IF k > Len(mp) THEN acc0
    ELSE With(acc0, LAMBDA acc :
           With(mp[k], LAMBDA post :
             redirects_keep_slash(mp, k + 1,
                 IF post.link # <<>> /\ post.slug # <<>>
                 THEN Put(acc, post.link, zola_path(post))
                 ELSE acc)))

create_redirect_map_keep_slash(mp) == redirects_keep_slash(mp, 1, <<>>)

\* the loop of create_redirect_map from the k-th migrated post on
RECURSIVE redirects_from(_, _, _)
redirects_from(mp, k, acc0) ==
    IF k > Len(mp) THEN acc0
    ELSE With(acc0, LAMBDA acc :
           With(mp[k], LAMBDA post :
             redirects_from(mp, k + 1,
                 IF post.link # <<>> /\ post.slug # <<>>
                 THEN Put(acc, rstrip_in(post.link, {"/"}), zola_path(post))
                 ELSE acc)))

\* create_redirect_map: the dict dumped to redirects.json
create_redirect_map(mp) == redirects_from(mp, 1, <<>>)

IndexPath == POSTS_DIR \o <<"_index", ".md">>

IndexPage == [title |-> <<"Blog">>, sort_by |-> <<"date">>, paginate_by |-> 10,
              template |-> <<"section.html">>]

----------------------------------------------------------------------------
(* Exports the Document Converter is run on *)

Site == "https://caricio.com"

Links == {<<>>, <<Site, "/", "hello-world", "/">>, <<Site, "/", "hello-world">>}

Slugs == {<<>>, <<"hello-world">>}

WpDate == <<"2021-07-08", " ", "08:56:00">>

PostDates == {<<>>, WpDate, <<"2021-7-8", " ", "8:56:0">>,
              <<"2022-10-01", "T", "12:00:00", "Z">>,
              <<"0000-00-00", " ", "00:00:00">>, <<"soon">>}

\* published records; records that are skipped (two drafts, a private one),
\* whose other fields are never used; a published record that differs from
\* another one in its title only
PostRecords ==
    [status : {"publish"}, title : {<<"Hello">>}, link : Links, slug : Slugs,
     post_date : PostDates, category : {<<>>}]
    \cup [status : {"draft"}, title : {<<"Hello">>},
          link : {<<>>, <<Site, "/", "hello-world", "/">>},
          slug : {<<"hello-world">>}, post_date : {WpDate}, category : {<<>>}]
    \cup {[status |-> "private", title |-> <<"Hello">>, link |-> <<>>,
           slug |-> <<"hello-world">>, post_date |-> WpDate, category |-> <<>>],
          [status |-> "publish", title |-> <<"Other">>,
           link |-> <<Site, "/", "hello-world", "/">>,
           slug |-> <<"hello-world">>, post_date |-> WpDate, category |-> <<>>]}

InitMigrate ==
    /\ posts \in SeqsUpTo(PostRecords, MaxPosts)
    /\ idx = 1 /\ files = <<>> /\ writer = <<>>
    /\ migrated_posts = <<>> /\ migrated_items = <<>> /\ redirects = <<>>
    /\ mpc = "loop"
    /\ ClassifierIdle /\ RewriterIdle /\ DownloadIdle /\ GistIdle

\* one iteration of main's loop over the posts
MigratePost ==
    /\ mpc = "loop" /\ idx <= Len(posts)
    /\ \E r \in {migrate_post(posts[idx], files)} :
          /\ files' = r.files
          /\ migrated_posts' = migrated_posts \o r.result
          /\ IF r.result # <<>>
             THEN /\ writer' = Put(writer, r.result[1].file, idx)
                  /\ migrated_items' = Append(migrated_items, idx)
             ELSE UNCHANGED <<writer, migrated_items>>
    /\ idx' = idx + 1
    /\ UNCHANGED <<posts, redirects, mpc, cvars, rvars, dvars, gvars>>

\* the loop is over: create_index_page (writer 0)
CreateIndexPage ==
    /\ mpc = "loop" /\ idx > Len(posts)
    /\ files' = Put(files, IndexPath, IndexPage)
    /\ writer' = Put(writer, IndexPath, 0)
    /\ mpc' = "redirects"
    /\ UNCHANGED <<posts, idx, migrated_posts, migrated_items, redirects,
                   cvars, rvars, dvars, gvars>>

CreateRedirectMap ==
    /\ mpc = "redirects"
    /\ redirects' = create_redirect_map(migrated_posts)
    /\ mpc' = "done"
    /\ UNCHANGED <<posts, idx, files, writer, migrated_posts, migrated_items,
                   cvars, rvars, dvars, gvars>>

NextMigrate == MigratePost \/ CreateIndexPage \/ CreateRedirectMap

SpecMigrate == InitMigrate /\ [][NextMigrate]_vars

----------------------------------------------------------------------------
(* Claims about the Document Converter (checked under SpecMigrate) *)

\* the records of the export with status 'publish'
PublishedItems == {i \in 1..Len(posts) : posts[i].status = "publish"}

\* a URL without its trailing slashes
StrippedUrl(link) ==
    SubSeq(link, 1, CHOOSE n \in 0..Len(link) :
                        /\ n = 0 \/ link[n] # "/"
                        /\ \A m \in (n + 1)..Len(link) : link[m] = "/")

\* '/blog/<date>-<slug>/', or '/blog/<slug>/' when the date is empty
ExpectedPath(m) ==
    IF m.date # <<>> THEN <<"/blog/">> \o m.date \o <<"-">> \o m.slug \o <<"/">>
    ELSE <<"/blog/">> \o m.slug \o <<"/">>

\* the migrated record has a canonical URL and a slug
HasUrlAndSlug(m) == m.link # <<>> /\ m.slug # <<>>

\* the migrated records that have the stripped URL key
WithKey(key) ==
    {j \in 1..Len(migrated_posts) :
        /\ HasUrlAndSlug(migrated_posts[j])
        /\ StrippedUrl(migrated_posts[j].link) = key}

\* C7: a record whose status is not 'publish' writes no file and yields no
\* result, every entry of the Redirect Map comes from a published record (so
\* the URL of a skipped record is no key unless a published record has it
\* too), and the loop goes on: the results are exactly those of the published
\* records processed so far, and all records have been processed at the end.
C7_NonPublishedSkipped ==
    mpc # "idle" =>
        /\ \A i \in 1..Len(posts) : posts[i].status # "publish" =>
              /\ \A f \in DOMAIN writer : writer[f] # i
              /\ \A k \in 1..Len(migrated_items) : migrated_items[k] # i
              /\ (\A j \in PublishedItems :
                      StrippedUrl(posts[j].link) # StrippedUrl(posts[i].link))
                 => StrippedUrl(posts[i].link) \notin DOMAIN redirects
        /\ {migrated_items[k] : k \in 1..Len(migrated_items)}
               = {i \in PublishedItems : i < idx}
        /\ Len(migrated_items) = Len(migrated_posts)
        /\ \A key \in DOMAIN redirects :
               \E k \in 1..Len(migrated_items) :
                   /\ migrated_items[k] \in PublishedItems
                   /\ StrippedUrl(posts[migrated_items[k]].link) = key
                   /\ redirects[key] = ExpectedPath(migrated_posts[k])
        /\ mpc \in {"redirects", "done"} => idx = Len(posts) + 1

\* a draft with a URL is followed by a published record that is migrated;
\* the run ends with the one document, the index page and no entry for the
\* draft's URL
C7_Witness ==
    /\ mpc = "done" /\ Len(posts) = 2
    /\ posts[1].status = "draft" /\ posts[1].link # <<>>
    /\ posts[2].status = "publish" /\ posts[2].link = <<>>
    /\ migrated_items = <<2>>
    /\ Cardinality(DOMAIN files) = 2
    /\ DOMAIN redirects = {}

\* C8 (as claimed): for every migrated record the map holds the key equal to
\* its URL without trailing slash, mapped to the record's new path.
C8_Original_EntryForEveryMigrated ==
    mpc = "done" =>
        \A k \in 1..Len(migrated_posts) :
            /\ StrippedUrl(migrated_posts[k].link) \in DOMAIN redirects
            /\ redirects[StrippedUrl(migrated_posts[k].link)]
                   = ExpectedPath(migrated_posts[k])

\* C8 (amended): for every migrated record that has a URL and a slug the map
\* holds the key equal to its URL without trailing slashes, mapped to the new
\* path of the last migrated record with that key (the record itself when no
\* later one shares the key); the map holds no other key, so a migrated
\* record without URL or slug has no entry.
C8_EntryForMigratedWithUrl ==
    mpc = "done" =>
        /\ \A k \in 1..Len(migrated_posts) :
              HasUrlAndSlug(migrated_posts[k]) =>
                  /\ StrippedUrl(migrated_posts[k].link) \in DOMAIN redirects
                  /\ redirects[StrippedUrl(migrated_posts[k].link)]
                       = ExpectedPath(migrated_posts[
                             Max(WithKey(StrippedUrl(migrated_posts[k].link)))])
        /\ \A key \in DOMAIN redirects : WithKey(key) # {}

\* slug 'hello-world', date '2021-07-08 08:56:00' and a URL ending in a slash
\* give '/blog/2021-07-08-hello-world/' under the URL without the slash; a
\* second migrated record without URL has no entry
C8_Witness ==
    /\ mpc = "done" /\ Len(migrated_posts) = 2
    /\ posts[1].post_date = WpDate
    /\ migrated_posts[1].slug = <<"hello-world">>
    /\ migrated_posts[1].link = <<Site, "/", "hello-world", "/">>
    /\ migrated_posts[2].link = <<>>
    /\ DOMAIN redirects = {<<Site, "/", "hello-world">>}
    /\ redirects[<<Site, "/", "hello-world">>]
           = <<"/blog/", "2021-07-08", "-", "hello-world", "/">>

\* C9 (as claimed, the part about documents): after a run the output files
\* other than the index page are in one-to-one correspondence with the
\* published records: the document of every published record is there, not
\* overwritten by the document of another record, also when two published
\* records have the same date and slug.
C9_Original_OneDocumentPerPublished ==
    mpc = "done" =>
        /\ \A i \in PublishedItems : \E f \in DOMAIN writer : writer[f] = i
        /\ Cardinality(DOMAIN files \ {IndexPath}) = Cardinality(PublishedItems)

----------------------------------------------------------------------------
(* Image download (download_wordpress_images.py) *)

WORDPRESS_URL == <<"https://caricio.com">>
STATIC_DIR == <<"static">>

\* the lexemes of image references in ascending order of their text
LexemeOrder == <<"/", "2022/10/", "2023/01/", "a.png", "pic.png", "wp-content/uploads/">>

Rank(t) == CHOOSE k \in 1..Len(LexemeOrder) : LexemeOrder[k] = t

\* a < b on strings
Less(a, b) ==
    \/ Len(a) < Len(b) /\ SubSeq(b, 1, Len(a)) = a
    \/ \E k \in 1..Min({Len(a), Len(b)}) :
          /\ \A j \in 1..(k - 1) : a[j] = b[j]
          /\ Rank(a[k]) < Rank(b[k])

\* sorted(S)
sorted(S0) ==
    With(S0, LAMBDA S :
        [k \in 1..Cardinality(S) |->
            CHOOSE x \in S : Cardinality({y \in S : Less(y, x)}) = k - 1] \o <<>>)

\* pathlib: base / rel (an absolute rel replaces base)
path_join(base, rel) ==
    IF rel # <<>> /\ rel[1] = "/" THEN rel ELSE base \o <<"/">> \o rel

full_url_of(wordpress_url, image_url) == wordpress_url \o image_url

\* (mutant) the leading slash of the reference is kept
local_path_keep_slash(static_dir, image_url) == path_join(static_dir, image_url)

local_path_of(static_dir, image_url) == path_join(static_dir, lstrip_in(image_url, {"/"}))

\* lengths of a response body or of a file found under static/
Sizes == {0, 2}

\* requests.exceptions.RequestException raised by requests.get (no answer in
\* 30 seconds, no connection) or by raise_for_status (non-success status)
RequestExceptions == {"Timeout", "ConnectionError", "HTTPError"}

\* the references found in the posts
ImagePool ==
    << <<"/", "wp-content/uploads/", "2023/01/", "a.png">>,
       <<"/", "wp-content/uploads/", "2022/10/", "pic.png">>,
       <<"/", "wp-content/uploads/", "2022/10/", "a.png">>,
       <<"/", "wp-content/uploads/", "2023/01/", "pic.png">> >>

ImageRefs == {ImagePool[k] : k \in 1..Min({MaxImages, Len(ImagePool)})}

\* the call download_images(image_urls, WORDPRESS_URL, STATIC_DIR), some of
\* the files being there already
InitDownload ==
    /\ image_urls \in SUBSET ImageRefs
    /\ \E present \in SUBSET {local_path_of(STATIC_DIR, u) : u \in ImageRefs} :
           static \in [present -> Sizes]
    /\ image_list = <<>> /\ didx = 1
    /\ successful = 0 /\ failed = 0 /\ total_bytes = 0
    /\ requested = <<>> /\ printed = <<>> /\ dret = <<>>
    /\ dpc = "start"
    /\ ClassifierIdle /\ RewriterIdle /\ MigrationIdle /\ GistIdle

SortImages ==
    /\ dpc = "start"
    /\ image_list' = sorted(image_urls)
    /\ dpc' = "loop"
    /\ UNCHANGED <<image_urls, didx, successful, failed, total_bytes, static,
                   requested, printed, dret, cvars, rvars, mvars, gvars>>

\* the file is there: counted as successful without a request
SkipExisting ==
    /\ dpc = "loop" /\ didx <= Len(image_list)
    /\ \E local_path \in {local_path_of(STATIC_DIR, image_list[didx])} :
          /\ local_path \in DOMAIN static
          /\ successful' = successful + 1
          /\ total_bytes' = total_bytes + static[local_path]
          /\ printed' = Append(printed, [idx |-> didx, mark |-> "exists",
                                        image_url |-> image_list[didx],
                                        file_size |-> static[local_path]])
    /\ didx' = didx + 1
    /\ UNCHANGED <<image_urls, image_list, failed, static, requested, dret, dpc,
                   cvars, rvars, mvars, gvars>>

\* the request is answered with a success status and a body of some size
FetchOk ==
    /\ dpc = "loop" /\ didx <= Len(image_list)
    /\ \E local_path \in {local_path_of(STATIC_DIR, image_list[didx])} :
          /\ local_path \notin DOMAIN static
          /\ \E size \in Sizes :
                /\ static' = Put(static, local_path, size)
                /\ total_bytes' = total_bytes + size
                /\ printed' = Append(printed, [idx |-> didx, mark |-> "ok",
                                              image_url |-> image_list[didx],
                                              file_size |-> size])
    /\ requested' = Append(requested, full_url_of(WORDPRESS_URL, image_list[didx]))
    /\ successful' = successful + 1
    /\ didx' = didx + 1
    /\ UNCHANGED <<image_urls, image_list, failed, dret, dpc, cvars, rvars, mvars, gvars>>

\* (mutant) a failed request ends the loop
FetchFailed_stops ==
    /\ dpc = "loop" /\ didx <= Len(image_list)
    /\ local_path_of(STATIC_DIR, image_list[didx]) \notin DOMAIN static
    /\ \E error \in RequestExceptions :
          printed' = Append(printed, [idx |-> didx, mark |-> "failed",
                                      image_url |-> image_list[didx],
                                      error |-> error])
    /\ requested' = Append(requested, full_url_of(WORDPRESS_URL, image_list[didx]))
    /\ failed' = failed + 1
    /\ didx' = Len(image_list) + 1
    /\ UNCHANGED <<image_urls, image_list, successful, total_bytes, static, dret,
                   dpc, cvars, rvars, mvars, gvars>>

\* the request raises a RequestException
FetchFailed ==
    /\ dpc = "loop" /\ didx <= Len(image_list)
    /\ local_path_of(STATIC_DIR, image_list[didx]) \notin DOMAIN static
    /\ \E error \in RequestExceptions :
          printed' = Append(printed, [idx |-> didx, mark |-> "failed",
                                      image_url |-> image_list[didx],
                                      error |-> error])
    /\ requested' = Append(requested, full_url_of(WORDPRESS_URL, image_list[didx]))
    /\ failed' = failed + 1
    /\ didx' = didx + 1
    /\ UNCHANGED <<image_urls, image_list, successful, total_bytes, static, dret,
                   dpc, cvars, rvars, mvars, gvars>>

ReturnCounts ==
    /\ dpc = "loop" /\ didx > Len(image_list)
    /\ dret' = <<successful, failed, total_bytes>>
    /\ dpc' = "returned"
    /\ UNCHANGED <<image_urls, image_list, didx, successful, failed, total_bytes,
                   static, requested, printed, cvars, rvars, mvars, gvars>>

NextDownload == SortImages \/ SkipExisting \/ FetchOk \/ FetchFailed \/ ReturnCounts

SpecDownload == InitDownload /\ [][NextDownload]_vars

----------------------------------------------------------------------------
(* Claims about the image download (checked under SpecDownload) *)

\* number of requests sent for the image reference u
Requests(u) ==
    Cardinality({j \in 1..Len(requested) : requested[j] = WORDPRESS_URL \o u})

\* positions of the sorted list whose download failed
FailedAt == {k \in 1..Len(printed) : printed[k].mark = "failed"}

\* C10: a failed download does not stop the loop: the images are gone through
\* in sorted order, one after the other, whatever failed before; no image is
\* requested twice, a failed image was requested exactly once and counts one
\* in failed; on return every image of the list has been gone through and
\* successful + failed is the number of image references.
C10_FailureDoesNotStopLoop ==
    dpc \in {"loop", "returned"} =>
        /\ Len(image_list) = Cardinality(image_urls)
        /\ {image_list[k] : k \in 1..Len(image_list)} = image_urls
        /\ \A k \in 1..(Len(image_list) - 1) : Less(image_list[k], image_list[k + 1])
        /\ Len(printed) = didx - 1
        /\ \A k \in 1..Len(printed) : printed[k].image_url = image_list[k]
        /\ \A u \in image_urls : Requests(u) <= 1
        /\ \A k \in FailedAt : Requests(image_list[k]) = 1
        /\ failed = Cardinality(FailedAt)
        /\ successful + failed = didx - 1
        /\ dpc = "returned" =>
              /\ didx - 1 = Len(image_list)
              /\ dret[1] = successful /\ dret[2] = failed
              /\ dret[1] + dret[2] = Cardinality(image_urls)

\* three images: the first and the last fail, the one between is downloaded
C10_Witness ==
    /\ dpc = "returned" /\ Len(image_list) = 3
    /\ printed[1].mark = "failed" /\ printed[2].mark = "ok"
    /\ printed[3].mark = "failed"
    /\ Len(requested) = 3
    /\ dret[1] = 1 /\ dret[2] = 2

\* positions of the sorted list whose image was downloaded
DownloadedAt == {k \in 1..Len(printed) : printed[k].mark = "ok"}

\* static_dir joined with the reference p without its leading slash
ExpectedLocalPath(p) == <<"static", "/">> \o Tail(p)

\* C11: every request is for the base URL followed by the reference of an
\* image of the list, the k-th request being that of the k-th image that was
\* not there already; a downloaded image p has been requested under exactly
\* that URL and its body is the file at static/ followed by p without the
\* leading slash (so the path ends in wp-content/uploads/...); nothing else
\* is written under static/.
C11_FetchUrlAndLocalPath ==
    dpc \in {"loop", "returned"} =>
        /\ \A j \in 1..Len(requested) :
              \E k \in 1..Len(printed) :
                  /\ printed[k].mark \in {"ok", "failed"}
                  /\ requested[j] = <<"https://caricio.com">> \o image_list[k]
                  /\ Cardinality({i \in 1..k : printed[i].mark \in {"ok", "failed"}}) = j
        /\ \A k \in DownloadedAt :
              /\ \E j \in 1..Len(requested) :
                     requested[j] = <<"https://caricio.com">> \o image_list[k]
              /\ ExpectedLocalPath(image_list[k]) \in DOMAIN static
              /\ static[ExpectedLocalPath(image_list[k])] = printed[k].file_size
              /\ image_list[k][1] = "/"
              /\ ExpectedLocalPath(image_list[k])[3] = "wp-content/uploads/"
        /\ \A f \in DOMAIN static : f[1] = "static" /\ f[2] = "/" /\ f[3] # "/"

\* '/wp-content/uploads/2022/10/pic.png' is downloaded with a body of two
\* bytes into static/wp-content/uploads/2022/10/pic.png
C11_Witness ==
    /\ dpc = "returned"
    /\ \E k \in DownloadedAt :
          /\ image_list[k] = <<"/", "wp-content/uploads/", "2022/10/", "pic.png">>
          /\ printed[k].file_size = 2
    /\ requested = << <<"https://caricio.com", "/", "wp-content/uploads/",
                        "2022/10/", "pic.png">> >>
    /\ <<"static", "/", "wp-content/uploads/", "2022/10/", "pic.png">> \in DOMAIN static
    /\ static[<<"static", "/", "wp-content/uploads/", "2022/10/", "pic.png">>] = 2

----------------------------------------------------------------------------
(* The language tag of one block: detect_language and convert_code_block *)

TagsHeader(tag) ==
    <<"+++", "nl", "tags", "sp", "=", "sp", "[", "dq", tag, "dq", "]", "nl", "+++", "nl">>

CategoriesHeader(category) ==
    <<"+++", "nl", "categories", "sp", "=", "sp", "[", "dq", category, "dq", "]", "nl",
      "+++", "nl">>

DetectNames == {<<"post", ".md">>, <<"learn", "-", "Python", ".md">>,
                <<"rust", "-", "tips", ".md">>, <<"fastapi", "-", "intro", ".md">>}

DetectHeaders == {<<>>, TagsHeader("Rust"), TagsHeader("fastapi"),
                  CategoriesHeader("Python")}

\* the context dicts process_file builds
DetectContexts ==
    {[filepath |-> name, frontmatter |-> parse_frontmatter(header)] :
        name \in DetectNames, header \in DetectHeaders}

DetectSnippets == {rstrip(join_nl(body)) : body \in SeqsUpTo(SampleLines, MaxDetectBody)}

InitDetect ==
    /\ code \in DetectSnippets
    /\ det_context \in DetectContexts
    /\ label = "unset" /\ det_language = "unset" /\ det_block = <<>>
    /\ cpc = "start"
    /\ RewriterIdle /\ MigrationIdle /\ DownloadIdle /\ GistIdle

\* the body of process_file's loop for one block
DetectAndConvert ==
    /\ cpc = "start"
    /\ \E lang \in {detect_language(code, det_context)} :
          /\ det_language' = lang
          /\ det_block' = convert_code_block(code, lang)
    /\ cpc' = "done"
    /\ UNCHANGED <<code, label, det_context, rvars, mvars, dvars, gvars>>

NextDetect == DetectAndConvert

SpecDetect == InitDetect /\ [][NextDetect]_vars

----------------------------------------------------------------------------
(* Claims about detect_language (checked under SpecDetect) *)

\* a lexeme of the text reads as the word in lower case
Mentions(text, word) ==
    \E k \in 1..Len(text) : text[k] = word \/ Lower(text[k]) = word

\* the value the preamble assigns to the key, <<>> when it assigns none
HeaderValue(key) ==
    IF \E k \in 1..Len(det_context.frontmatter) : det_context.frontmatter[k][1] = <<key>>
    THEN det_context.frontmatter[CHOOSE k \in 1..Len(det_context.frontmatter) :
                                 det_context.frontmatter[k][1] = <<key>>][2]
    ELSE <<>>

\* the label of the context: from the file name, then from categories/tags
ContextLabel ==
    IF Mentions(det_context.filepath, "python") \/ Mentions(det_context.filepath, "fastapi")
    THEN "python"
    ELSE IF Mentions(det_context.filepath, "rust") THEN "rust"
    ELSE IF \/ Mentions(HeaderValue("categories"), "python")
            \/ Mentions(HeaderValue("tags"), "python")
            \/ Mentions(HeaderValue("tags"), "fastapi") THEN "python"
    ELSE IF \/ Mentions(HeaderValue("categories"), "rust")
            \/ Mentions(HeaderValue("tags"), "rust") THEN "rust"
    ELSE None

\* C12: the label of the content (also 'text') is the result whatever the
\* context says; the label of the context is used only when the content has
\* none; with neither the block is an untagged fence.
C12_ContextIsFallback ==
    cpc = "done" /\ det_language # "unset" =>
        /\ detect_language_from_content(code) # None
              => det_language = detect_language_from_content(code)
        /\ (detect_language_from_content(code) = None /\ ContextLabel # None)
              => det_language = ContextLabel
        /\ (detect_language_from_content(code) = None /\ ContextLabel = None)
              => /\ det_language = ""
                 /\ det_block = <<"fence", "nl">> \o code \o <<"nl", "fence">>
        /\ det_language # ""
              => det_block = <<"fence", det_language, "nl">> \o code \o <<"nl", "fence">>

\* a plain-output snippet in a file named after rust is tagged text
C12_Witness ==
    /\ cpc = "done" /\ det_language = "text"
    /\ detect_language_from_content(code) = "text"
    /\ ContextLabel = "rust"
    /\ det_block[2] = "text"

\* the timestamp is absent or is not one: no year-month-day in first place
MissingOrMalformed(wp_date) ==
    \/ wp_date = <<>>
    \/ wp_date[1] \notin {"2021-07-08", "2021-7-8", "2022-10-01"}

\* C14: a published record whose date is missing or malformed is migrated
\* all the same: its result has the empty date and its document is the file
\* '<slug>.md' under content/blog, without date prefix; a date that is a
\* timestamp is never turned into the empty date; the run goes on to its end
\* with every record processed.
C14_BadDateStillMigrated ==
    mpc # "idle" =>
        /\ \A k \in 1..Len(migrated_items) :
              LET item == posts[migrated_items[k]]
              IN  /\ MissingOrMalformed(item.post_date) =>
                        /\ migrated_posts[k].date = <<>>
                        /\ item.slug # <<>> =>
                              migrated_posts[k].file
                                  = <<"content/blog/">> \o item.slug \o <<".md">>
                        /\ migrated_posts[k].file \in DOMAIN files
                        /\ files[migrated_posts[k].file].date = <<>>
                  /\ ~MissingOrMalformed(item.post_date) =>
                        /\ migrated_posts[k].date \in {<<"2021-07-08">>, <<"2022-10-01">>}
                        /\ migrated_posts[k].file[2] = migrated_posts[k].date[1]
        /\ \A i \in PublishedItems :
              i < idx => \E k \in 1..Len(migrated_items) : migrated_items[k] = i
        /\ mpc \in {"redirects", "done"} => idx = Len(posts) + 1

\* a published record dated 0000-00-00 00:00:00 becomes hello-world.md and
\* the record after it, which has no date at all and no slug, is migrated too
C14_Witness ==
    /\ mpc = "done" /\ Len(posts) = 2
    /\ posts[1].post_date = <<"0000-00-00", " ", "00:00:00">>
    /\ posts[2].post_date = <<>> /\ posts[2].slug = <<>>
    /\ migrated_items = <<1, 2>>
    /\ migrated_posts[1].file = <<"content/blog/", "hello-world", ".md">>
    /\ writer[<<"content/blog/", "hello-world", ".md">>] = 1
    /\ migrated_posts[1].date = <<>>

----------------------------------------------------------------------------
(* Exports with categories and tags *)

LabelChars == {"A", "a", " ", "tab", "&"}

\* the text of a category element: absent, Uncategorized, or a short name
Labels == SeqsUpTo(LabelChars, MaxLabel) \cup {<<"Uncategorized">>}

CategoryElements == [domain : {"category", "post_tag"}, text : Labels]

\* a published record with up to two category elements
LabelledRecords ==
    [status : {"publish"}, title : {<<"Hello">>},
     link : {<<Site, "/", "hello-world", "/">>}, slug : {<<"hello-world">>},
     post_date : {WpDate}, category : SeqsUpTo(CategoryElements, 2)]

InitTaxonomy ==
    /\ posts \in {<<item>> : item \in LabelledRecords}
    /\ idx = 1 /\ files = <<>> /\ writer = <<>>
    /\ migrated_posts = <<>> /\ migrated_items = <<>> /\ redirects = <<>>
    /\ mpc = "loop"
    /\ ClassifierIdle /\ RewriterIdle /\ DownloadIdle /\ GistIdle

SpecTaxonomy == InitTaxonomy /\ [][NextMigrate]_vars

----------------------------------------------------------------------------
(* Claims about the taxonomy entries (checked under SpecTaxonomy) *)

PermittedChars == {"a", "uncategorized", "-", "_", "."}

\* the labels of a domain that have a text, in order
NamedLabels(domain) ==
    SelectSeq(posts[1].category, LAMBDA cat : cat.domain = domain /\ cat.text # <<>>)

\* the document of the record has been written
DocumentWritten == idx > 1 /\ migrated_posts # <<>>

Written == files[migrated_posts[1].file]

\* lower case, whitespace into hyphens, other characters dropped
DroppingSlug(name) ==
    LET hyphened == [k \in 1..Len(name) |->
                        IF name[k] \in {" ", "tab"} THEN "-"
                        ELSE IF name[k] = "A" THEN "a"
                        ELSE IF name[k] = "Uncategorized" THEN "uncategorized"
                        ELSE name[k]]
    IN  SelectSeq(hyphened, LAMBDA ch : ch \in PermittedChars)

\* lower case, blanks into hyphens, one underscore for every other character
\* outside the permitted set
UnderscoreSlug(name) ==
    [k \in 1..Len(name) |->
        IF name[k] = " " THEN "-"
        ELSE IF name[k] = "A" THEN "a"
        ELSE IF name[k] = "Uncategorized" THEN "uncategorized"
        ELSE IF name[k] \in PermittedChars THEN name[k]
        ELSE "_"]

KeptCategories ==
    SelectSeq(NamedLabels("category"), LAMBDA cat : cat.text # <<"Uncategorized">>)

----------------------------------------------------------------------------
(* Gist inliner: inline_gists.py *)

\* One lexeme stands for the text 'https://gist.github.com/rafaelcaricio/'
GistOwnerUrl == "gist/"

\* characters of [a-f0-9]
HexChars == {"a", "b"}

RECURSIVE hex_run(_, _)
\* the position after the run of [a-f0-9] characters that starts at i
hex_run(content, i) ==
    IF i <= Len(content) /\ content[i] \in HexChars THEN hex_run(content, i + 1) ELSE i

RECURSIVE findall_from(_, _)
findall_from(content, i) ==
    IF i > Len(content) THEN <<>>
    ELSE IF content[i] = GistOwnerUrl /\ hex_run(content, i + 1) > i + 1
         THEN <<SubSeq(content, i + 1, hex_run(content, i + 1) - 1)>>
              \o findall_from(content, hex_run(content, i + 1))
         ELSE findall_from(content, i + 1)

\* re.findall of the link pattern: the group ([a-f0-9]+) of every match,
\* in the order of the text, a repeated link repeated
extract_gist_urls(content) == findall_from(content, 1)

\* fetch_gist, given what requests.get does: the parsed body for a status
\* 200, nothing for another status or an exception
fetch_gist(response) ==
    IF response.kind = "response" /\ response.status_code = 200
    THEN <<response.json>>
    ELSE <<>>

extract_code_from_gist(gist_data) ==
    With(SelectSeq(gist_data.files, LAMBDA file_info : file_info.content # <<>>),
         LAMBDA fs : [k \in 1..Len(fs) |->
             [filename |-> fs[k].filename,
              language |-> IF fs[k].language = None THEN "" ELSE Lower(fs[k].language),
              content  |-> fs[k].content]] \o <<>>)

gist_url_of(gist_id) == <<GistOwnerUrl>> \o gist_id

code_block_md(code_block) ==
    IF code_block.language # ""
    THEN <<"fence", code_block.language, "nl">> \o code_block.content
         \o <<"nl", "fence", "nl">>
    ELSE <<"fence", "nl">> \o code_block.content \o <<"nl", "fence", "nl">>

RECURSIVE replace_from(_, _, _, _)
replace_from(s, old, new, i) ==
    IF i > Len(s) THEN <<>>
    ELSE IF i + Len(old) - 1 <= Len(s) /\ SubSeq(s, i, i + Len(old) - 1) = old
         THEN new \o replace_from(s, old, new, i + Len(old))
         ELSE <<s[i]>> \o replace_from(s, old, new, i + 1)

\* str.replace(old, new): every non-overlapping occurrence, left to right
replace(s, old, new) == replace_from(s, old, new, 1)

RECURSIVE inline_blocks(_, _, _, _)
\* the loop over code_blocks, from the k-th block on
inline_blocks(content, gist_id, code_blocks, k) ==
    IF k > Len(code_blocks) THEN content
    ELSE inline_blocks(replace(content, gist_url_of(gist_id), code_block_md(code_blocks[k])),
                       gist_id, code_blocks, k + 1)

\* The posts: up to MaxGistSegs lines, each a link to the gist a, ab or b or
\* a line of text
GistSegments ==
    { <<GistOwnerUrl, "a", "nl">>, <<GistOwnerUrl, "a", "b", "nl">>,
      <<GistOwnerUrl, "b", "nl">>, <<"x", "nl">> }

GistPosts == {Concat(segs) : segs \in SeqsUpTo(GistSegments, MaxGistSegs)}

\* The 'files' of a gist: none, one without content, one with content and a
\* language, one with content and no language, two with content
GistFiles ==
    { <<>>,
      <<[filename |-> "f1", language |-> "Python", content |-> <<>>]>>,
      <<[filename |-> "f1", language |-> "Python", content |-> <<"y">>]>>,
      <<[filename |-> "f1", language |-> None, content |-> <<"y">>]>>,
      <<[filename |-> "f1", language |-> "Python", content |-> <<"y">>],
        [filename |-> "f2", language |-> None, content |-> <<"z">>]>> }

\* What requests.get(url, timeout=10) does: it raises (timeout, connection
\* error), or returns a response with a status other than 200, or one with
\* status 200 and a body
Responses ==
    { [kind |-> "exception", status_code |-> 0, json |-> [files |-> <<>>]],
      [kind |-> "response", status_code |-> 404, json |-> [files |-> <<>>]] }
    \cup { [kind |-> "response", status_code |-> 200, json |-> [files |-> fs]] :
           fs \in GistFiles }

InitGist ==
    /\ post_disk \in GistPosts
    /\ post_content = <<>> /\ original_content = <<>>
    /\ gist_ids = <<>> /\ gidx = 1 /\ fetched = <<>> /\ post_writes = 0
    /\ gret = <<>> /\ gpc = "start"
    /\ ClassifierIdle /\ RewriterIdle /\ MigrationIdle /\ DownloadIdle

\* process_post up to the loop: the file is read and the gist ids extracted
ReadPost ==
    /\ gpc = "start"
    /\ post_content' = post_disk
    /\ original_content' = post_disk
    /\ gist_ids' = extract_gist_urls(post_disk)
    /\ IF extract_gist_urls(post_disk) = <<>>
       THEN gret' = <<FALSE>> /\ gpc' = "done"
       ELSE gret' = gret /\ gpc' = "loop"
    /\ UNCHANGED <<post_disk, gidx, fetched, post_writes, cvars, rvars, mvars, dvars>>

\* one iteration of the loop over gist_ids: the fetch, and the replacements
\* when the gist has code
ProcessGist ==
    /\ gpc = "loop" /\ gidx <= Len(gist_ids)
    /\ \E response \in Responses :
         \E gist_data \in {fetch_gist(response)} :
           \E code_blocks \in {IF gist_data = <<>> THEN <<>>
                               ELSE extract_code_from_gist(gist_data[1])} :
             /\ post_content' =
                  IF code_blocks = <<>> THEN post_content
                  ELSE inline_blocks(post_content, gist_ids[gidx], code_blocks, 1)
             /\ fetched' = Append(fetched,
                  [gist_id |-> gist_ids[gidx],
                   outcome |-> IF gist_data = <<>> THEN "failed"
                               ELSE IF code_blocks = <<>> THEN "no code"
                               ELSE "inlined"])
    /\ gidx' = gidx + 1
    /\ UNCHANGED <<post_disk, original_content, gist_ids, post_writes, gret, gpc,
                   cvars, rvars, mvars, dvars>>

\* process_post after the loop: the file is written when the content changed
WriteIfChanged ==
    /\ gpc = "loop" /\ gidx > Len(gist_ids)
    /\ IF post_content # original_content
       THEN post_disk' = post_content /\ post_writes' = post_writes + 1
            /\ gret' = <<TRUE>>
       ELSE post_disk' = post_disk /\ post_writes' = post_writes
            /\ gret' = <<FALSE>>
    /\ gpc' = "done"
    /\ UNCHANGED <<post_content, original_content, gist_ids, gidx, fetched,
                   cvars, rvars, mvars, dvars>>

NextGist == ReadPost \/ ProcessGist \/ WriteIfChanged

SpecGist == InitGist /\ [][NextGist]_vars

----------------------------------------------------------------------------
(* Gist inliner: claims *)

\* the ids of the gists requested, in the order of the requests
FetchedIds == [k \in 1..Len(fetched) |-> fetched[k].gist_id] \o <<>>

\* the gists that were requested and never inlined: every fetch of them
\* failed or gave no file with content
NeverInlined ==
    {fetched[k].gist_id : k \in 1..Len(fetched)}
    \ {fetched[k].gist_id : k \in {j \in 1..Len(fetched) : fetched[j].outcome = "inlined"}}

\* the number of links to the gist in a text
Occurrences(content, gist_id) ==
    With(extract_gist_urls(content),
         LAMBDA ids : Cardinality({k \in 1..Len(ids) : ids[k] = gist_id}))

\* the loop ran to its end: every link found in the post was requested once,
\* in the order of the text, whatever came of the requests before it
LoopNotAborted == gpc = "done" => FetchedIds = gist_ids

\* the post file is written at most once, exactly when the content differs
\* from what was read, which is exactly when some gist was inlined
RewrittenIffChanged ==
    gpc = "done" =>
        /\ post_writes = (IF post_content # original_content THEN 1 ELSE 0)
        /\ post_disk = post_content
        /\ (post_content # original_content)
             <=> (\E k \in 1..Len(fetched) : fetched[k].outcome = "inlined")

\* C17 (as stated): when process_post has returned, every gist whose fetch
\* failed or gave no file content has all its links still in the post, the
\* loop was not aborted (every link found was requested exactly once), and
\* the post file was rewritten if and only if a replacement changed the
\* content.
C17_Original_FailedLinksUnchanged ==
    /\ gpc = "done" =>
         \A gist_id \in NeverInlined :
             /\ Occurrences(post_content, gist_id) = Occurrences(original_content, gist_id)
             /\ Occurrences(post_disk, gist_id) = Occurrences(original_content, gist_id)
    /\ LoopNotAborted
    /\ RewrittenIffChanged

\* a post with a gist that was not inlined after one that was
C17_Reached ==
    /\ gpc = "done"
    /\ \E j, k \in 1..Len(fetched) :
         j < k /\ fetched[j].outcome # "inlined" /\ fetched[k].outcome = "inlined"
    /\ post_writes = 1

====
